---- MODULE Spec2Model ----
(***************************************************************************)
(* Identity lifecycle of indy-cli-rs: DID records and keys inside a        *)
(* wallet store (tools/did/mod.rs, tools/did/key.rs) and the backup        *)
(* engine that copies them between stores (tools/wallet/mod.rs).           *)
(*                                                                         *)
(* Encoding.  A Rust Option is a sequence of length 0 or 1.  A verkey is   *)
(* the pair <<origin, n>>: <<"seed", n>> is the key derived from seed n,   *)
(* <<"rnd", n>> the n-th key the random generator can produce.  A DID      *)
(* string is the sequence of its colon separated parts: <<id>> is an       *)
(* unqualified identifier, <<"did", method, id>> a qualified one.          *)
(***************************************************************************)
EXTENDS Integers, Sequences, FiniteSets, Bags, TLC

\* ------------------------------------------------------------------ bounds
NumSeeds == 1      \* decodable seeds 1..NumSeeds; seed 0 cannot be decoded
NumRandom == 2     \* keys the random generator can produce
MaxDids == 2       \* DID records one store holds at most
MaxFaults == 1     \* record inserts that fail during one copy_records
MaxOps == 4        \* commands of one run when backups are in play (SpecBackup)
NumForeign == 2    \* entries per category that hold no DidInfo (SpecForeign)
MaxForeignOps == 2 \* commands of one run against a foreign store (SpecForeign)
MaxLines == 3      \* lines of a batch script

None == <<>>
Some(x) == <<x>>
IsSome(o) == o # <<>>
Unwrap(o) == o[1]

CATEGORY_DID == "did"
KEY_TYPE == "ed25519"

Methods == {"indy"}
Metadatas == {"m1"}
ValidSeeds == 1..NumSeeds
Seeds == 0..NumSeeds
RandomKeys == {<<"rnd", n>> : n \in 1..NumRandom}
Messages == {"msg1", "msg2"}

\* ------------------------------------------------------------- key material
\* LocalKey::from_secret_bytes: the keypair is a function of the seed.
from_secret_bytes(seed) == <<"seed", seed>>

\* Key::verkey: base58 of the public bytes of the keypair.
verkey_of(keypair) == keypair

\* The secret half of a keypair; it is what a signature depends on.
secret_of(keypair) == <<"secret", keypair[1], keypair[2]>>

\* sign_message: deterministic in the secret key and the message.
sign_message(secret, bytes) == <<"sig", secret, bytes>>

\* base58::encode(&verkey_bytes[0..16]): the default identifier of a key.
short_did(verkey) == <<<<"id", verkey[1], verkey[2]>>>>

\* Identifiers a caller passes explicitly: the default identifier of seed 1
\* (as DID_TRUSTEE is for SEED_TRUSTEE in the tests) and an identifier that
\* is already qualified with a method no command of the model asks for.
ExplicitDids == {short_did(from_secret_bytes(1)),
                 <<"did", "sov", <<"id", "ext", 1>>>>}

\* ------------------------------------------------------------- Qualifiable
\* Qualifiable::split / is_fully_qualified for the prefix "did".
is_fully_qualified(did) == Len(did) = 3 /\ did[1] = "did"

\* Qualifiable::to_qualified: Ok(did:<method>:<id>) for an unqualified id,
\* Ok(self) when already qualified with the same method, Err otherwise.
to_qualified(did, method) ==
    IF ~is_fully_qualified(did)
    THEN [ok |-> TRUE, did |-> <<"did", method>> \o did]
    ELSE IF did[2] = method
         THEN [ok |-> TRUE, did |-> did]
         ELSE [ok |-> FALSE, did |-> did]

\* DidValue::to_short: the identifier without its "did:<method>:" prefix.
to_short(did) == IF is_fully_qualified(did) THEN <<did[3]>> ELSE did

\* ------------------------------------------------------------------- store
\* A store is a set of entries (category, name, value, tags) and a set of
\* key entries (name, secret, metadata).
EmptyStore == [records |-> {}, keys |-> {}]

DidEntries(st) == {e \in st.records : e.category = CATEGORY_DID}

\* Wallet::fetch_record: the entry of the category with that name, or None.
fetch_record(st, name) ==
    LET found == {e \in DidEntries(st) : e.name = name}
    IN IF found = {} THEN None ELSE Some(CHOOSE e \in found : TRUE)

\* Session::insert: fails when an entry of that category and name exists.
insert_ok(st, name) == \A e \in DidEntries(st) : e.name # name

\* Wallet::store_record(category, name, value, tags, new): insert when `new`,
\* replace otherwise; an insert over an existing name and a replace of a
\* missing name are store errors and change nothing.
store_record(st, name, value, tags, new) ==
    LET entry == [category |-> CATEGORY_DID, name |-> name,
                  value |-> value, tags |-> tags]
        others == {e \in st.records :
                      ~(e.category = CATEGORY_DID /\ e.name = name)}
    IN IF new = insert_ok(st, name)
       THEN [ok |-> TRUE, store |-> [st EXCEPT !.records = others \cup {entry}]]
       ELSE [ok |-> FALSE, store |-> st]

\* Wallet::remove_record: removes the entry; a missing entry is a store error.
remove_record(st, name) ==
    IF insert_ok(st, name)
    THEN [ok |-> FALSE, store |-> st]
    ELSE [ok |-> TRUE,
          store |-> [st EXCEPT !.records =
                        {e \in @ : ~(e.category = CATEGORY_DID /\ e.name = name)}]]

KeyNames(st) == {k.name : k \in st.keys}

\* Session::insert_key: fails when a key of that name exists.
insert_key(st, name, keypair, metadata) ==
    IF name \in KeyNames(st)
    THEN [ok |-> FALSE, store |-> st]
    ELSE [ok |-> TRUE,
          store |-> [st EXCEPT !.keys = @ \cup
                        {[name |-> name, secret |-> secret_of(keypair),
                          metadata |-> metadata]}]]

\* ----------------------------------------------------------- Key (key.rs)
\* Seed::from_str: accepts a decodable seed only.
Seed_from_str(seed) == seed \in ValidSeeds

\* Key::create that generates the key even when a seed is given.
Key_create_ignore_seed(st, seed, metadata, rnd) ==
    IF IsSome(seed) /\ ~Seed_from_str(Unwrap(seed))
    THEN [status |-> "InvalidInput", verkey |-> None, store |-> st]
    ELSE LET ins == insert_key(st, verkey_of(rnd), rnd, metadata)
         IN IF ins.ok
            THEN [status |-> "Ok", verkey |-> Some(verkey_of(rnd)),
                  store |-> ins.store]
            ELSE [status |-> "StoreError", verkey |-> None, store |-> st]

\* Key::create: derive the keypair from the seed (InvalidInput when it cannot
\* be decoded) or generate it (`rnd`), then insert it under its verkey.
\* Key::create that generates a random key when the seed cannot be decoded.
Key_create_generate_on_bad_seed(st, seed, metadata, rnd) ==
    LET keypair == IF IsSome(seed) /\ Seed_from_str(Unwrap(seed))
                   THEN from_secret_bytes(Unwrap(seed))
                   ELSE rnd
        ins == insert_key(st, verkey_of(keypair), keypair, metadata)
    IN IF ins.ok
       THEN [status |-> "Ok", verkey |-> Some(verkey_of(keypair)),
             store |-> ins.store]
       ELSE [status |-> "StoreError", verkey |-> None, store |-> st]

Key_create(st, seed, metadata, rnd) ==
    IF IsSome(seed) /\ ~Seed_from_str(Unwrap(seed))
    THEN [status |-> "InvalidInput", verkey |-> None, store |-> st]
    ELSE LET keypair == IF IsSome(seed) THEN from_secret_bytes(Unwrap(seed))
                        ELSE rnd
             ins == insert_key(st, verkey_of(keypair), keypair, metadata)
         IN IF ins.ok
            THEN [status |-> "Ok", verkey |-> Some(verkey_of(keypair)),
                  store |-> ins.store]
            ELSE [status |-> "StoreError", verkey |-> None, store |-> st]

\* Key::load: the key entry of that name, or None.
Key_load(st, id) ==
    LET found == {k \in st.keys : k.name = id}
    IN IF found = {} THEN None ELSE Some(CHOOSE k \in found : TRUE)

\* Key::sign: load the key (NotFound when absent) and sign the bytes.
\* Key::sign that hands out the secret of the key it loaded.
Key_sign_return_secret(st, id, bytes) ==
    LET key == Key_load(st, id)
    IN IF key = None
       THEN [status |-> "NotFound", ret |-> None]
       ELSE [status |-> "Ok", ret |-> Some(Unwrap(key).secret)]

Key_sign(st, id, bytes) ==
    LET key == Key_load(st, id)
    IN IF key = None
       THEN [status |-> "NotFound", ret |-> None]
       ELSE [status |-> "Ok", ret |-> Some(sign_message(Unwrap(key).secret, bytes))]

\* ------------------------------------------------------- Did (did/mod.rs)
\* Did::fetch_record: the entry and the DidInfo deserialized from its value.
Did_fetch_record(st, name) == fetch_record(st, name)

\* EntryTag list of a new record: verkey, verkey_type and, if given, method.
new_tags(verkey, method) ==
    [verkey |-> verkey, verkey_type |-> KEY_TYPE, method |-> method]

\* Did::create without the lookup of an existing record.
Did_create_no_lookup(st, did, seed, metadata, method, rnd) ==
    LET kc == Key_create(st, seed, metadata, rnd)
    IN IF kc.status # "Ok"
       THEN [status |-> kc.status, ret |-> None, store |-> st]
       ELSE
       LET verkey == Unwrap(kc.verkey)
           did0 == IF IsSome(did) THEN Unwrap(did) ELSE short_did(verkey)
           q == IF IsSome(method) THEN to_qualified(did0, Unwrap(method))
                ELSE [ok |-> TRUE, did |-> did0]
           did_info == [did |-> q.did, verkey |-> verkey,
                        verkey_type |-> KEY_TYPE, method |-> method,
                        metadata |-> metadata, next_verkey |-> None]
           st2 == store_record(kc.store, did_info.did, did_info,
                               new_tags(verkey, method), TRUE)
       IN IF ~q.ok
          THEN [status |-> "InvalidInput", ret |-> None, store |-> kc.store]
          ELSE IF ~st2.ok
          THEN [status |-> "StoreError", ret |-> None, store |-> kc.store]
          ELSE [status |-> "Ok", ret |-> Some(<<q.did, verkey>>),
                store |-> st2.store]

\* Did::create that qualifies the did but attaches no method tag.
Did_create_no_method_tag(st, did, seed, metadata, method, rnd) ==
    LET kc == Key_create(st, seed, metadata, rnd)
    IN IF kc.status # "Ok"
       THEN [status |-> kc.status, ret |-> None, store |-> st]
       ELSE
       LET verkey == Unwrap(kc.verkey)
           did0 == IF IsSome(did) THEN Unwrap(did) ELSE short_did(verkey)
           existing_did == Did_fetch_record(kc.store, did0)
           q == IF IsSome(method) THEN to_qualified(did0, Unwrap(method))
                ELSE [ok |-> TRUE, did |-> did0]
           did_info == [did |-> q.did, verkey |-> verkey,
                        verkey_type |-> KEY_TYPE, method |-> method,
                        metadata |-> metadata, next_verkey |-> None]
           st2 == store_record(kc.store, did_info.did, did_info,
                               new_tags(verkey, None), TRUE)
       IN IF IsSome(existing_did)
          THEN [status |-> "Duplicate", ret |-> None, store |-> kc.store]
          ELSE IF ~q.ok
          THEN [status |-> "InvalidInput", ret |-> None, store |-> kc.store]
          ELSE IF ~st2.ok
          THEN [status |-> "StoreError", ret |-> None, store |-> kc.store]
          ELSE [status |-> "Ok", ret |-> Some(<<q.did, verkey>>),
                store |-> st2.store]

\* Did::create
Did_create(st, did, seed, metadata, method, rnd) ==
    LET kc == Key_create(st, seed, metadata, rnd)
    IN IF kc.status # "Ok"
       THEN [status |-> kc.status, ret |-> None, store |-> st]
       ELSE
       LET verkey == Unwrap(kc.verkey)
           did0 == IF IsSome(did) THEN Unwrap(did) ELSE short_did(verkey)
           existing_did == Did_fetch_record(kc.store, did0)
           q == IF IsSome(method) THEN to_qualified(did0, Unwrap(method))
                ELSE [ok |-> TRUE, did |-> did0]
           did_info == [did |-> q.did, verkey |-> verkey,
                        verkey_type |-> KEY_TYPE, method |-> method,
                        metadata |-> metadata, next_verkey |-> None]
           st2 == store_record(kc.store, did_info.did, did_info,
                               new_tags(verkey, method), TRUE)
       IN IF IsSome(existing_did)
          THEN [status |-> "Duplicate", ret |-> None, store |-> kc.store]
          ELSE IF ~q.ok
          THEN [status |-> "InvalidInput", ret |-> None, store |-> kc.store]
          ELSE IF ~st2.ok
          THEN [status |-> "StoreError", ret |-> None, store |-> kc.store]
          ELSE [status |-> "Ok", ret |-> Some(<<q.did, verkey>>),
                store |-> st2.store]

\* Did::replace_keys_start that makes the new key the current one at once.
Did_replace_keys_start_eager(st, did, seed, rnd) ==
    LET fetched == Did_fetch_record(st, did)
    IN IF fetched = None
       THEN [status |-> "NotFound", ret |-> None, store |-> st]
       ELSE
       LET kc == Key_create(st, seed, None, rnd)
       IN IF kc.status # "Ok"
          THEN [status |-> kc.status, ret |-> None, store |-> st]
          ELSE LET did_info == [Unwrap(fetched).value EXCEPT
                                   !.verkey = Unwrap(kc.verkey),
                                   !.next_verkey = kc.verkey]
               IN [status |-> "Ok", ret |-> kc.verkey,
                   store |-> store_record(kc.store, did_info.did, did_info,
                                          Unwrap(fetched).tags, FALSE).store]

\* Did::replace_keys_start
\* Did::replace_keys_start after its fetch returned did_entry: create the key,
\* set next_verkey on the fetched value and store it with the fetched tags.
\* st is the store as it is when these calls run.
Did_replace_keys_start_persist(st, did_entry, seed, rnd) ==
    LET kc == Key_create(st, seed, None, rnd)
    IN IF kc.status # "Ok"
       THEN [status |-> kc.status, ret |-> None, store |-> st]
       ELSE
       LET did_info == [did_entry.value EXCEPT !.next_verkey = kc.verkey]
           st2 == store_record(kc.store, did_info.did, did_info,
                               did_entry.tags, FALSE)
       IN IF ~st2.ok
          THEN [status |-> "StoreError", ret |-> None, store |-> kc.store]
          ELSE [status |-> "Ok", ret |-> kc.verkey, store |-> st2.store]

\* Did::replace_keys_start that refuses a record whose rotation is pending.
Did_replace_keys_start_once(st, did, seed, rnd) ==
    LET fetched == Did_fetch_record(st, did)
    IN IF fetched = None
       THEN [status |-> "NotFound", ret |-> None, store |-> st]
       ELSE IF IsSome(Unwrap(fetched).value.next_verkey)
       THEN [status |-> "InvalidEntityState", ret |-> None, store |-> st]
       ELSE Did_replace_keys_start_persist(st, Unwrap(fetched), seed, rnd)

\* Did::replace_keys_start that creates the key before it fetches the record.
Did_replace_keys_start_key_first(st, did, seed, rnd) ==
    LET kc == Key_create(st, seed, None, rnd)
        fetched == Did_fetch_record(st, did)
    IN IF kc.status # "Ok"
       THEN [status |-> kc.status, ret |-> None, store |-> st]
       ELSE IF fetched = None
       THEN [status |-> "NotFound", ret |-> None, store |-> kc.store]
       ELSE Did_replace_keys_start_persist(st, Unwrap(fetched), seed, rnd)

Did_replace_keys_start(st, did, seed, rnd) ==
    LET fetched == Did_fetch_record(st, did)
    IN IF fetched = None
       THEN [status |-> "NotFound", ret |-> None, store |-> st]
       ELSE Did_replace_keys_start_persist(st, Unwrap(fetched), seed, rnd)

\* Did::replace_keys_apply that clears next_verkey without promoting it.
Did_replace_keys_apply_no_promote(st, did) ==
    LET fetched == Did_fetch_record(st, did)
    IN IF fetched = None
       THEN [status |-> "NotFound", ret |-> None, store |-> st]
       ELSE IF Unwrap(fetched).value.next_verkey = None
       THEN [status |-> "InvalidEntityState", ret |-> None, store |-> st]
       ELSE LET did_info == [Unwrap(fetched).value EXCEPT !.next_verkey = None]
            IN [status |-> "Ok", ret |-> None,
                store |-> store_record(st, did_info.did, did_info,
                                       Unwrap(fetched).tags, FALSE).store]

\* Did::replace_keys_apply without the check that a next key is set.
Did_replace_keys_apply_unchecked(st, did) ==
    LET fetched == Did_fetch_record(st, did)
    IN IF fetched = None
       THEN [status |-> "NotFound", ret |-> None, store |-> st]
       ELSE LET did_entry == Unwrap(fetched)
                did_info == [did_entry.value EXCEPT
                                !.verkey = IF IsSome(did_entry.value.next_verkey)
                                           THEN Unwrap(did_entry.value.next_verkey)
                                           ELSE @,
                                !.next_verkey = None]
            IN [status |-> "Ok", ret |-> None,
                store |-> store_record(st, did_info.did, did_info,
                                       did_entry.tags, FALSE).store]

\* Did::replace_keys_apply that deletes the key it supersedes.
Did_replace_keys_apply_drop_old(st, did) ==
    LET fetched == Did_fetch_record(st, did)
    IN IF fetched = None
       THEN [status |-> "NotFound", ret |-> None, store |-> st]
       ELSE IF Unwrap(fetched).value.next_verkey = None
       THEN [status |-> "InvalidEntityState", ret |-> None, store |-> st]
       ELSE LET old == Unwrap(fetched).value.verkey
                did_info == [Unwrap(fetched).value EXCEPT
                                !.verkey = Unwrap(Unwrap(fetched).value.next_verkey),
                                !.next_verkey = None]
                st2 == store_record(st, did_info.did, did_info,
                                    Unwrap(fetched).tags, FALSE).store
            IN [status |-> "Ok", ret |-> None,
                store |-> [st2 EXCEPT !.keys = {k \in @ : k.name # old}]]

\* Did::replace_keys_apply
\* Did::replace_keys_apply that builds the tags anew from the promoted key.
Did_replace_keys_apply_fresh_tags(st, did) ==
    LET fetched == Did_fetch_record(st, did)
    IN IF fetched = None
       THEN [status |-> "NotFound", ret |-> None, store |-> st]
       ELSE IF Unwrap(fetched).value.next_verkey = None
       THEN [status |-> "InvalidEntityState", ret |-> None, store |-> st]
       ELSE
       LET did_info == [Unwrap(fetched).value EXCEPT
                           !.verkey = Unwrap(Unwrap(fetched).value.next_verkey),
                           !.next_verkey = None]
       IN [status |-> "Ok", ret |-> None,
           store |-> store_record(st, did_info.did, did_info,
                                  new_tags(did_info.verkey, did_info.method),
                                  FALSE).store]

Did_replace_keys_apply(st, did) ==
    LET fetched == Did_fetch_record(st, did)
    IN IF fetched = None
       THEN [status |-> "NotFound", ret |-> None, store |-> st]
       ELSE
       LET did_entry == Unwrap(fetched)
           next_verkey == did_entry.value.next_verkey
       IN IF next_verkey = None
          THEN [status |-> "InvalidEntityState", ret |-> None, store |-> st]
          ELSE
          LET did_info == [did_entry.value EXCEPT
                              !.verkey = Unwrap(next_verkey),
                              !.next_verkey = None]
              st2 == store_record(st, did_info.did, did_info,
                                  did_entry.tags, FALSE)
          IN IF ~st2.ok
             THEN [status |-> "StoreError", ret |-> None, store |-> st]
             ELSE [status |-> "Ok", ret |-> None, store |-> st2.store]

\* Did::set_metadata that writes a fresh record instead of the fetched one.
Did_set_metadata_overwrite(st, did, metadata) ==
    LET fetched == Did_fetch_record(st, did)
    IN IF fetched = None
       THEN [status |-> "NotFound", ret |-> None, store |-> st]
       ELSE LET did_info == [Unwrap(fetched).value EXCEPT
                                !.metadata = Some(metadata),
                                !.next_verkey = None]
            IN [status |-> "Ok", ret |-> None,
                store |-> store_record(st, did_info.did, did_info,
                                       Unwrap(fetched).tags, FALSE).store]

\* Did::set_metadata
\* Did::set_metadata after its fetch returned did_entry: overwrite metadata on
\* the fetched value and store it with the fetched tags.
Did_set_metadata_persist(st, did_entry, metadata) ==
    LET did_info == [did_entry.value EXCEPT !.metadata = Some(metadata)]
        st2 == store_record(st, did_info.did, did_info, did_entry.tags, FALSE)
    IN IF ~st2.ok
       THEN [status |-> "StoreError", ret |-> None, store |-> st]
       ELSE [status |-> "Ok", ret |-> None, store |-> st2.store]

\* Did::set_metadata that builds the tags anew from the value it stores.
Did_set_metadata_fresh_tags(st, did, metadata) ==
    LET fetched == Did_fetch_record(st, did)
    IN IF fetched = None
       THEN [status |-> "NotFound", ret |-> None, store |-> st]
       ELSE LET did_info == [Unwrap(fetched).value EXCEPT
                                !.metadata = Some(metadata)]
            IN [status |-> "Ok", ret |-> None,
                store |-> store_record(st, did_info.did, did_info,
                                       new_tags(did_info.verkey, did_info.method),
                                       FALSE).store]

Did_set_metadata(st, did, metadata) ==
    LET fetched == Did_fetch_record(st, did)
    IN IF fetched = None
       THEN [status |-> "NotFound", ret |-> None, store |-> st]
       ELSE Did_set_metadata_persist(st, Unwrap(fetched), metadata)

\* Did::get that also finds the record stored under a qualified form of did.
Did_get_any_form(st, did) ==
    LET found == {e \in DidEntries(st) : to_short(e.name) = to_short(did)}
    IN IF found = {}
       THEN [status |-> "NotFound", ret |-> None, store |-> st]
       ELSE [status |-> "Ok", ret |-> Some((CHOOSE e \in found : TRUE).value),
             store |-> st]

\* Did::get
Did_get(st, did) ==
    LET fetched == Did_fetch_record(st, did)
    IN IF fetched = None
       THEN [status |-> "NotFound", ret |-> None, store |-> st]
       ELSE [status |-> "Ok", ret |-> Some(Unwrap(fetched).value), store |-> st]

\* Did::remove
Did_remove(st, name) == remove_record(st, name)

\* Did::qualify that inserts under the qualified id without removing the
\* record under the old id.
Did_qualify_no_remove(st, did, method) ==
    LET fetched == Did_fetch_record(st, did)
    IN IF fetched = None
       THEN [status |-> "NotFound", ret |-> None, store |-> st]
       ELSE
       LET entry == Unwrap(fetched)
           qualified_did == to_qualified(did, method)
           did_info == [entry.value EXCEPT !.did = qualified_did.did]
           st2 == store_record(st, did_info.did, did_info, entry.tags, TRUE)
       IN IF ~qualified_did.ok
          THEN [status |-> "InvalidInput", ret |-> None, store |-> st]
          ELSE IF ~st2.ok
          THEN [status |-> "StoreError", ret |-> None, store |-> st]
          ELSE [status |-> "Ok", ret |-> Some(qualified_did.did),
                store |-> st2.store]

\* Did::qualify that removes the old record before it qualifies the id.
Did_qualify_remove_first(st, did, method) ==
    LET fetched == Did_fetch_record(st, did)
    IN IF fetched = None
       THEN [status |-> "NotFound", ret |-> None, store |-> st]
       ELSE
       LET entry == Unwrap(fetched)
           removed == Did_remove(st, did)
           qualified_did == to_qualified(did, method)
           did_info == [entry.value EXCEPT !.did = qualified_did.did]
           st2 == store_record(removed.store, did_info.did, did_info,
                               entry.tags, TRUE)
       IN IF ~qualified_did.ok
          THEN [status |-> "InvalidInput", ret |-> None, store |-> removed.store]
          ELSE IF ~st2.ok
          THEN [status |-> "StoreError", ret |-> None, store |-> removed.store]
          ELSE [status |-> "Ok", ret |-> Some(qualified_did.did),
                store |-> st2.store]

\* Did::qualify that writes the method into the moved record and its tags.
Did_qualify_set_method(st, did, method) ==
    LET fetched == Did_fetch_record(st, did)
    IN IF fetched = None
       THEN [status |-> "NotFound", ret |-> None, store |-> st]
       ELSE
       LET entry == Unwrap(fetched)
           qualified_did == to_qualified(did, method)
           removed == Did_remove(st, did)
           did_info == [entry.value EXCEPT !.did = qualified_did.did,
                                           !.method = Some(method)]
           st2 == store_record(removed.store, did_info.did, did_info,
                               new_tags(did_info.verkey, Some(method)), TRUE)
       IN IF ~qualified_did.ok
          THEN [status |-> "InvalidInput", ret |-> None, store |-> st]
          ELSE IF ~removed.ok
          THEN [status |-> "StoreError", ret |-> None, store |-> st]
          ELSE IF ~st2.ok
          THEN [status |-> "StoreError", ret |-> None, store |-> removed.store]
          ELSE [status |-> "Ok", ret |-> Some(qualified_did.did),
                store |-> st2.store]

\* Did::qualify
\* Did::qualify that stores the fetched body, did field unchanged, under the
\* qualified id.
Did_qualify_keep_body_did(st, did, method) ==
    LET fetched == Did_fetch_record(st, did)
    IN IF fetched = None
       THEN [status |-> "NotFound", ret |-> None, store |-> st]
       ELSE
       LET entry == Unwrap(fetched)
           qualified_did == to_qualified(did, method)
           removed == Did_remove(st, did)
           st2 == store_record(removed.store, qualified_did.did, entry.value,
                               entry.tags, TRUE)
       IN IF ~qualified_did.ok
          THEN [status |-> "InvalidInput", ret |-> None, store |-> st]
          ELSE IF ~removed.ok
          THEN [status |-> "StoreError", ret |-> None, store |-> st]
          ELSE IF ~st2.ok
          THEN [status |-> "StoreError", ret |-> None, store |-> removed.store]
          ELSE [status |-> "Ok", ret |-> Some(qualified_did.did),
                store |-> st2.store]

Did_qualify(st, did, method) ==
    LET fetched == Did_fetch_record(st, did)
    IN IF fetched = None
       THEN [status |-> "NotFound", ret |-> None, store |-> st]
       ELSE
       LET entry == Unwrap(fetched)
           qualified_did == to_qualified(did, method)
           removed == Did_remove(st, did)
           did_info == [entry.value EXCEPT !.did = qualified_did.did]
           st2 == store_record(removed.store, did_info.did, did_info,
                               entry.tags, TRUE)
       IN IF ~qualified_did.ok
          THEN [status |-> "InvalidInput", ret |-> None, store |-> st]
          ELSE IF ~removed.ok
          THEN [status |-> "StoreError", ret |-> None, store |-> st]
          ELSE IF ~st2.ok
          THEN [status |-> "StoreError", ret |-> None, store |-> removed.store]
          ELSE [status |-> "Ok", ret |-> Some(qualified_did.did),
                store |-> st2.store]

\* Did::sign that signs with the pending key while a rotation is under way.
Did_sign_with_next(st, did, bytes) ==
    LET fetched == Did_fetch_record(st, did)
    IN IF fetched = None
       THEN [status |-> "NotFound", ret |-> None, store |-> st]
       ELSE LET info == Unwrap(fetched).value
                signed == Key_sign(st, IF IsSome(info.next_verkey)
                                       THEN Unwrap(info.next_verkey)
                                       ELSE info.verkey, bytes)
            IN [status |-> signed.status, ret |-> signed.ret, store |-> st]

\* Did::sign
Did_sign(st, did, bytes) ==
    LET fetched == Did_fetch_record(st, did)
    IN IF fetched = None
       THEN [status |-> "NotFound", ret |-> None, store |-> st]
       ELSE LET signed == Key_sign(st, Unwrap(fetched).value.verkey, bytes)
            IN [status |-> signed.status, ret |-> signed.ret, store |-> st]

\* serde_json::from_slice::<DidInfo>: the DidInfo a value holds, or None for
\* a value that is no serialized DidInfo.
from_slice(value) == IF "did" \in DOMAIN value THEN Some(value) ELSE None

\* The entries of a Vec, whatever their order: a bag.
VecOf(entries) ==
    LET values == {e.value : e \in entries}
    IN [v \in values |-> Cardinality({e \in entries : e.value = v})]

\* Did::list that leaves out the entries it cannot deserialize.
Did_list_skip_bad(st) ==
    [status |-> "Ok",
     ret |-> Some(VecOf({e \in DidEntries(st) : IsSome(from_slice(e.value))})),
     store |-> st]

\* Did::list: deserialize every entry of the category; the first failure is
\* the result of the whole call.
Did_list(st) ==
    IF \E e \in DidEntries(st) : from_slice(e.value) = None
    THEN [status |-> "SerdeError", ret |-> None, store |-> st]
    ELSE [status |-> "Ok", ret |-> Some(VecOf(DidEntries(st))), store |-> st]

\* The 32 key bytes as <<first 16 bytes, last 16 bytes>>. The first half of
\* the key <<kind, n>> is the identifier short_did derives from it.
key_bytes(verkey) == <<<<"id", verkey[1], verkey[2]>>, <<verkey[1], verkey[2]>>>>

\* base58 text of 32 key bytes: the verkey <<kind, n>> when both halves come
\* from one key, else a text of its own.
encode_key(bytes) ==
    IF bytes = key_bytes(bytes[2]) THEN bytes[2] ELSE <<"mix", bytes[1], bytes[2]>>

\* EncodedVerKey::from_did_and_verkey: a verkey text starting with "~" holds
\* the last 16 bytes only, the bytes of the did are the first 16.
from_did_and_verkey(did, verkey) ==
    IF verkey[1] = "~" THEN <<did[1], <<verkey[2], verkey[3]>>>>
    ELSE key_bytes(verkey)

\* EncodedVerKey::abbreviated_for_did: "~" and the last 16 bytes when the
\* first 16 are the bytes of the did, the whole key otherwise.
abbreviated_for_did(bytes, did) ==
    IF bytes[1] = did[1] THEN <<"~", bytes[2][1], bytes[2][2]>>
    ELSE encode_key(bytes)

\* Did::abbreviate_verkey that reads a "~" text as a whole key.
Did_abbreviate_verkey_no_expand(did, verkey) ==
    [status |-> "Ok",
     ret |-> Some(abbreviated_for_did(key_bytes(verkey), to_short(did)))]

\* Did::abbreviate_verkey
Did_abbreviate_verkey(did, verkey) ==
    LET short == to_short(did)
    IN [status |-> "Ok",
        ret |-> Some(abbreviated_for_did(from_did_and_verkey(short, verkey), short))]

\* ------------------------------------------------ Wallet (wallet/mod.rs)
WalletIds == {"w1", "w2"}
BackupPaths == {"b1"}
StoreIds == WalletIds \cup BackupPaths

\* What one copy_records run can suffer: `lost_dids` and `lost_keys` are the
\* names whose insert into the target fails, `broken` the key entry whose
\* load_local_key fails (with `before`, the keys the loop reached first).
NoFaults == [lost_dids |-> {}, lost_keys |-> {}, broken |-> None, before |-> {}]

\* Wallet::copy_records that gives up at the first insert that fails.
Wallet_copy_records_strict(from, to, faults) ==
    LET failed == faults.lost_dids # {} \/ faults.lost_keys # {}
                     \/ IsSome(faults.broken)
    IN [status |-> IF failed THEN "StoreError" ELSE "Ok",
        store |-> IF failed THEN to
                  ELSE [records |-> to.records \cup DidEntries(from),
                        keys |-> to.keys \cup from.keys]]

\* Wallet::copy_records that copies the entries of every category.
Wallet_copy_records_all_categories(from, to, faults) ==
    LET copied == {e \in from.records :
                      e.name \notin faults.lost_dids
                      /\ \A t \in to.records :
                            ~(t.category = e.category /\ t.name = e.name)}
        key_entries == IF IsSome(faults.broken)
                       THEN {k \in from.keys : k.name \in faults.before}
                       ELSE from.keys
        keys == {k \in key_entries :
                    k.name \notin faults.lost_keys /\ k.name \notin KeyNames(to)}
    IN [status |-> IF IsSome(faults.broken) THEN "StoreError" ELSE "Ok",
        store |-> [records |-> to.records \cup copied, keys |-> to.keys \cup keys]]

\* Wallet::copy_records: insert every DID entry and every key of `from` into
\* `to`; an insert that fails is dropped (.ok()), a key that cannot be loaded
\* aborts the copy with what was inserted so far.
Wallet_copy_records(from, to, faults) ==
    LET did_entries == DidEntries(from)
        copied == {e \in did_entries :
                      e.name \notin faults.lost_dids /\ insert_ok(to, e.name)}
        key_entries == IF IsSome(faults.broken)
                       THEN {k \in from.keys : k.name \in faults.before}
                       ELSE from.keys
        keys == {k \in key_entries :
                    k.name \notin faults.lost_keys /\ k.name \notin KeyNames(to)}
    IN [status |-> IF IsSome(faults.broken) THEN "StoreError" ELSE "Ok",
        store |-> [records |-> to.records \cup copied, keys |-> to.keys \cup keys]]

\* Wallet::export: provision the backup store at `path` (a brand-new store),
\* copy the records into it and close it; `open` is the set of stores the call
\* has opened and not closed when it returns: backup_store.close() is reached
\* only when copy_records has returned Ok.
Wallet_export(sts, w, path, faults) ==
    LET copy == Wallet_copy_records(Unwrap(sts[w]), EmptyStore, faults)
    IN [status |-> copy.status,
        stores |-> [sts EXCEPT ![path] = Some(copy.store)],
        open |-> IF copy.status = "Ok" THEN {} ELSE {path}]

\* Wallet::import that registers the wallet and provisions its store before
\* it looks for the backup and for an existing wallet.
Wallet_import_register_first(sts, registered, id, path, faults) ==
    LET new_store == IF IsSome(sts[id]) THEN Unwrap(sts[id]) ELSE EmptyStore
        provisioned == [sts EXCEPT ![id] = Some(new_store)]
    IN IF sts[path] = None
       THEN [status |-> "NotFound", stores |-> provisioned,
             wallets |-> registered \cup {id}, open |-> {}]
       ELSE IF id \in registered
       THEN [status |-> "Duplicate", stores |-> sts, wallets |-> registered,
             open |-> {}]
       ELSE LET copy == Wallet_copy_records(Unwrap(sts[path]), new_store, faults)
            IN [status |-> copy.status,
                stores |-> [sts EXCEPT ![id] = Some(copy.store)],
                wallets |-> registered \cup {id},
                open |-> IF copy.status = "Ok" THEN {} ELSE {path, id}]

\* Wallet::import: NotFound without a backup at `path`, Duplicate when the
\* wallet id is registered; else open the backup, register the wallet,
\* provision its store, copy the records of the backup into it and close both
\* stores; the two close() calls are reached only when copy_records has
\* returned Ok.
Wallet_import(sts, registered, id, path, faults) ==
    IF sts[path] = None
    THEN [status |-> "NotFound", stores |-> sts, wallets |-> registered,
          open |-> {}]
    ELSE IF id \in registered
    THEN [status |-> "Duplicate", stores |-> sts, wallets |-> registered,
          open |-> {}]
    ELSE LET new_store == IF IsSome(sts[id]) THEN Unwrap(sts[id]) ELSE EmptyStore
             copy == Wallet_copy_records(Unwrap(sts[path]), new_store, faults)
         IN [status |-> copy.status,
             stores |-> [sts EXCEPT ![id] = Some(copy.store)],
             wallets |-> registered \cup {id},
             open |-> IF copy.status = "Ok" THEN {} ELSE {path, id}]

\* ------------------------------------------------------------------- state
VARIABLES
    stores,     \* store id -> Option(store): wallets and backups on disk
    wallets,    \* wallet ids registered in the wallet directory
    result,     \* the last operation: its inputs, status and return value
    snapshot,   \* backup path -> the source store as a successful export saw it
    imported,   \* <<wallet id, backup path>> of the imports that reported success
    handles,    \* stores an export or import has opened and not closed
    fault,      \* what the copy of the last export or import suffered
    ops,        \* commands run so far (counted under SpecBackup and SpecForeign)
    calls,      \* client -> the operation it is running (SpecConcurrent only)
    ctx         \* the CommandContext of the CLI: opened wallet, active DID, pool, modes

vars == <<stores, wallets, result, snapshot, imported, handles, fault, ops, calls,
          ctx>>

\* ------------------------------------------------------- command context
\* The CommandContext: the id of the opened wallet, the active DID, the
\* connected pool with the transaction author agreement info read from it,
\* and the batch-mode and exit flags.
NewContext ==
    [wallet |-> None, active_did |-> None, pool |-> None, taa |-> None,
     batch_mode |-> FALSE, exit |-> FALSE]

\* The context of a CLI that has opened wallet w1 and done nothing else.
WalletOpened == [NewContext EXCEPT !.wallet = Some("w1")]

\* ensure_opened_wallet: the store of the opened wallet, if there is one.
ensure_opened_wallet(c, sts) ==
    IF IsSome(c.wallet) /\ IsSome(sts[Unwrap(c.wallet)])
    THEN sts[Unwrap(c.wallet)]
    ELSE None

\* `did use` that sets the active DID without looking the DID up.
use_execute_no_lookup(c, sts, param) ==
    IF param = None \/ ensure_opened_wallet(c, sts) = None
    THEN [ok |-> FALSE, ctx |-> c]
    ELSE [ok |-> TRUE, ctx |-> [c EXCEPT !.active_did = param]]

\* use_command::execute: the did parameter, the opened wallet, Did::get, and
\* only then set_active_did.
use_execute(c, sts, param) ==
    IF param = None
    THEN [ok |-> FALSE, ctx |-> c]
    ELSE
    LET store == ensure_opened_wallet(c, sts)
    IN IF store = None
       THEN [ok |-> FALSE, ctx |-> c]
       ELSE IF Did_get(Unwrap(store), Unwrap(param)).status # "Ok"
       THEN [ok |-> FALSE, ctx |-> c]
       ELSE [ok |-> TRUE, ctx |-> [c EXCEPT !.active_did = param]]

\* Pool::close: nothing to do for a local pool, always Ok.
Pool_close(pool) == TRUE

\* close_pool that leaves the pool in the context.
close_pool_keep_pool(c) ==
    IF Pool_close(c.pool)
    THEN [ok |-> TRUE, ctx |-> [c EXCEPT !.taa = None]]
    ELSE [ok |-> FALSE, ctx |-> c]

\* close_pool: when Pool::close succeeds, set_connected_pool(ctx, None) and
\* set_transaction_author_info(ctx, None).
close_pool(c) ==
    IF Pool_close(c.pool)
    THEN [ok |-> TRUE, ctx |-> [c EXCEPT !.pool = None, !.taa = None]]
    ELSE [ok |-> FALSE, ctx |-> c]

\* disconnect_command::execute: ensure_connected_pool and
\* ensure_connected_pool_name fail without a connected pool.
disconnect_execute(c) ==
    IF c.pool = None
    THEN [ok |-> FALSE, ctx |-> c]
    ELSE close_pool(c)

\* ------------------------------------------------------------ batch mode
\* A line of a script is the sequence of its parts; <<"?">> is a line the
\* reader cannot decode.
Lines ==
    {<<>>, <<"#", "about">>, <<"about">>, <<"bad">>, <<"-", "bad">>,
     <<"pool", "disconnect">>, <<"-", "pool", "disconnect">>, <<"exit">>, <<"?">>}

starts_with(line, c) == Len(line) > 0 /\ line[1] = c

\* CommandExecutor::execute: run the command the line names against the
\* context; a line that names no command fails.
execute(c, line) ==
    IF line = <<"about">> THEN [ok |-> TRUE, ctx |-> c]
    ELSE IF line = <<"exit">> THEN [ok |-> TRUE, ctx |-> [c EXCEPT !.exit = TRUE]]
    ELSE IF line = <<"pool", "disconnect">> THEN disconnect_execute(c)
    ELSE [ok |-> FALSE, ctx |-> c]

\* _iter_batch that gives up at every command that fails.
stops_on_any_failure(res, force) == ~res.ok

\* _iter_batch: the condition under which it gives up after a command.
stops(res, force) == ~res.ok /\ ~force

\* _iter_batch from line i on. ran lists the lines executed so far, each with
\* its number in the file and whether its command succeeded.
RECURSIVE iter_batch(_, _, _, _)
iter_batch(c, lines, i, ran) ==
    IF i > Len(lines) THEN [ctx |-> c, ran |-> ran]
    ELSE
    LET line == lines[i]
    IN IF line = <<"?">> THEN [ctx |-> c, ran |-> ran]
       ELSE IF starts_with(line, "#") \/ line = <<>>
       THEN iter_batch(c, lines, i + 1, ran)
       ELSE
       LET force == starts_with(line, "-")
           res == execute(c, IF force THEN Tail(line) ELSE line)
           ran2 == Append(ran, [line |-> i, ok |-> res.ok])
       IN IF stops(res, force) THEN [ctx |-> res.ctx, ran |-> ran2]
          ELSE IF res.ctx.exit THEN [ctx |-> res.ctx, ran |-> ran2]
          ELSE iter_batch(res.ctx, lines, i + 1, ran2)

\* execute_batch with a script path: file is None when the script cannot be
\* opened.
execute_batch(c, file) ==
    LET batch == [c EXCEPT !.batch_mode = TRUE]
    IN IF file = None
       THEN [ctx |-> batch, ran |-> <<>>]
       ELSE LET done == iter_batch(batch, Unwrap(file), 1, <<>>)
            IN [ctx |-> [done.ctx EXCEPT !.batch_mode = FALSE], ran |-> done.ran]

\* Two command line clients that have opened the same wallet file.
Clients == {"c1", "c2"}
Idle == [pc |-> "idle", op |-> "none", did |-> None, arg |-> None,
         entry |-> None, status |-> "none", ret |-> None]
NoCalls == [c \in Clients |-> Idle]

Outcome(op, w, did, arg, status, ret) ==
    [op |-> op, w |-> w, did |-> did, arg |-> arg, status |-> status, ret |-> ret]

\* The wallet "w1" has been created and opened; nothing else exists.
Init ==
    /\ stores = [s \in StoreIds |-> IF s = "w1" THEN Some(EmptyStore) ELSE None]
    /\ wallets = {"w1"}
    /\ result = Outcome("init", "w1", None, None, "Ok", None)
    /\ snapshot = [p \in BackupPaths |-> None]
    /\ imported = {}
    /\ handles = {}
    /\ fault = NoFaults
    /\ ops = 0
    /\ calls = NoCalls
    /\ ctx = WalletOpened

\* Wallets a command can run against: registered, with a store behind them.
Opened == {w \in wallets : IsSome(stores[w])}

Store(w) == Unwrap(stores[w])

\* Names of the DID records of a store, and the DIDs a caller may pass.
DidNames(st) == {e.name : e \in DidEntries(st)}
DidInputs(w) == DidNames(Store(w)) \cup ExplicitDids

\* The keys some store holds or some DID record names.
KnownKeys ==
    UNION {KeyNames(Unwrap(stores[s]))
             \cup {e.value.verkey : e \in DidEntries(Unwrap(stores[s]))}
             : s \in {x \in StoreIds : IsSome(stores[x])}}

\* LocalKey::generate returns a key that exists nowhere yet; the keys it can
\* return are interchangeable, so the first unused one stands for all.
FreshKeys ==
    LET unused == RandomKeys \ KnownKeys
    IN {k \in unused : \A j \in unused : k[2] <= j[2]}

\* The outcome of one copy: at most MaxFaults inserts fail, or one key entry
\* cannot be loaded.
Faults(from) ==
    {f \in [lost_dids : SUBSET DidNames(from), lost_keys : SUBSET KeyNames(from),
            broken : {None} \cup {Some(k) : k \in KeyNames(from)},
            before : SUBSET KeyNames(from)] :
        /\ Cardinality(f.lost_dids) + Cardinality(f.lost_keys)
              + (IF IsSome(f.broken) THEN 1 ELSE 0) <= MaxFaults
        /\ IF IsSome(f.broken) THEN Unwrap(f.broken) \notin f.before
           ELSE f.before = {}}

Apply(w, res, op, did, arg) ==
    /\ stores' = [stores EXCEPT ![w] = Some(res.store)]
    /\ result' = Outcome(op, w, did, arg, res.status, res.ret)
    /\ UNCHANGED <<wallets, snapshot, imported, handles, fault, calls, ctx>>

\* `did new`
Create ==
    \E w \in Opened : \E did \in {None} \cup {Some(d) : d \in ExplicitDids},
       seed \in {None} \cup {Some(s) : s \in Seeds},
       metadata \in {None} \cup {Some(m) : m \in Metadatas},
       method \in {None} \cup {Some(m) : m \in Methods},
       rnd \in FreshKeys :
        LET res == Did_create(Store(w), did, seed, metadata, method, rnd)
        IN /\ Cardinality(DidEntries(res.store)) <= MaxDids
           /\ Apply(w, res, "create", did, [method |-> method, seed |-> seed])

\* `did rotate-key` (first phase)
ReplaceKeysStart ==
    \E w \in Opened : \E did \in DidInputs(w),
       seed \in {None} \cup {Some(s) : s \in Seeds}, rnd \in FreshKeys :
        LET res == Did_replace_keys_start(Store(w), did, seed, rnd)
        IN /\ Apply(w, res, "replace_keys_start", Some(did), seed)

\* `did rotate-key` (second phase)
ReplaceKeysApply ==
    \E w \in Opened : \E did \in DidInputs(w) :
        LET res == Did_replace_keys_apply(Store(w), did)
        IN /\ Apply(w, res, "replace_keys_apply", Some(did), None)

SetMetadata ==
    \E w \in Opened : \E did \in DidInputs(w), metadata \in Metadatas :
        LET res == Did_set_metadata(Store(w), did, metadata)
        IN /\ Apply(w, res, "set_metadata", Some(did), Some(metadata))

Get ==
    \E w \in Opened : \E did \in DidInputs(w) :
        LET res == Did_get(Store(w), did)
        IN /\ Apply(w, res, "get", Some(did), None)

List ==
    \E w \in Opened :
        LET res == Did_list(Store(w))
        IN /\ Apply(w, res, "list", None, None)

Qualify ==
    \E w \in Opened : \E did \in DidInputs(w), method \in Methods :
        LET res == Did_qualify(Store(w), did, method)
        IN /\ Apply(w, res, "qualify", Some(did), Some(method))

Sign ==
    \E w \in Opened : \E did \in DidInputs(w), bytes \in Messages :
        LET res == Did_sign(Store(w), did, bytes)
        IN /\ Apply(w, res, "sign", Some(did), Some(bytes))

\* `wallet export` to a path that holds no backup yet
Export ==
    \E w \in Opened : \E path \in {p \in BackupPaths : stores[p] = None} :
      \E faults \in Faults(Store(w)) :
        LET res == Wallet_export(stores, w, path, faults)
        IN /\ stores' = res.stores
           /\ result' = Outcome("export", w, None, Some(path), res.status, None)
           /\ snapshot' = [snapshot EXCEPT
                              ![path] = IF res.status = "Ok" THEN stores[w] ELSE None]
           /\ handles' = handles \cup res.open
           /\ fault' = faults
           /\ UNCHANGED <<wallets, imported, calls, ctx>>

\* `wallet import`
Import ==
    \E id \in WalletIds, path \in BackupPaths :
      \E faults \in IF IsSome(stores[path]) THEN Faults(Unwrap(stores[path]))
                    ELSE {NoFaults} :
        LET res == Wallet_import(stores, wallets, id, path, faults)
        IN /\ stores' = res.stores
           /\ wallets' = res.wallets
           /\ result' = Outcome("import", id, None, Some(path), res.status, None)
           /\ imported' = IF res.status = "Ok" THEN imported \cup {<<id, path>>}
                         ELSE imported
           /\ handles' = handles \cup res.open
           /\ fault' = faults
           /\ UNCHANGED <<snapshot, calls, ctx>>

Next ==
    \/ Create /\ UNCHANGED ops
    \/ ReplaceKeysStart /\ UNCHANGED ops
    \/ ReplaceKeysApply /\ UNCHANGED ops
    \/ SetMetadata /\ UNCHANGED ops
    \/ Get /\ UNCHANGED ops
    \/ List /\ UNCHANGED ops
    \/ Qualify /\ UNCHANGED ops
    \/ Sign /\ UNCHANGED ops

Spec == Init /\ [][Next]_vars

\* The identity manager together with the backup engine, for runs of at most
\* MaxOps commands.
Tick == ops < MaxOps /\ ops' = ops + 1

NextBackup ==
    \/ Tick /\ Create
    \/ Tick /\ ReplaceKeysStart
    \/ Tick /\ ReplaceKeysApply
    \/ Tick /\ SetMetadata
    \/ Tick /\ Get
    \/ Tick /\ List
    \/ Tick /\ Qualify
    \/ Tick /\ Sign
    \/ Tick /\ Export
    \/ Tick /\ Import

SpecBackup == Init /\ [][NextBackup]_vars

\* A wallet that was written before it was opened. Its store holds up to two
\* DID records, each as Did::create writes it into an empty store, with their
\* keys, up to NumForeign entries of the DID category whose value is no
\* DidInfo and up to NumForeign entries of another category (the store is a
\* file other programs write, too). The commands run against it are list,
\* export and import.
CreatedStores ==
    {res.store : res \in
        {r \in {Did_create(EmptyStore, did, seed, metadata, method, rnd) :
                   did \in {None} \cup {Some(d) : d \in ExplicitDids},
                   seed \in {None} \cup {Some(x) : x \in ValidSeeds},
                   metadata \in {None} \cup {Some(m) : m \in Metadatas},
                   method \in {None} \cup {Some(m) : m \in Methods},
                   rnd \in RandomKeys} : r.status = "Ok"}}

ForeignEntries ==
    {[category |-> CATEGORY_DID, name |-> <<<<"id", "raw", n>>>>,
      value |-> [raw |-> n], tags |-> new_tags(<<"raw", n>>, None)]
        : n \in 1..NumForeign}

\* Entries of a category that is not the DID category.
OtherEntries ==
    {[category |-> "other", name |-> <<<<"id", "raw", n>>>>,
      value |-> [raw |-> n], tags |-> new_tags(<<"raw", n>>, None)]
        : n \in 1..NumForeign}

InitForeign ==
    /\ \E a \in CreatedStores, b \in CreatedStores,
          foreign \in SUBSET (ForeignEntries \cup OtherEntries) :
          /\ a = b \/ (DidNames(a) # DidNames(b) /\ KeyNames(a) # KeyNames(b))
          /\ stores = [s \in StoreIds |->
                         IF s = "w1"
                         THEN Some([records |-> a.records \cup b.records \cup foreign,
                                    keys |-> a.keys \cup b.keys])
                         ELSE None]
    /\ wallets = {"w1"}
    /\ result = Outcome("init", "w1", None, None, "Ok", None)
    /\ snapshot = [p \in BackupPaths |-> None]
    /\ imported = {}
    /\ handles = {}
    /\ fault = NoFaults
    /\ ops = 0
    /\ calls = NoCalls
    /\ ctx = WalletOpened

TickForeign == ops < MaxForeignOps /\ ops' = ops + 1

NextForeign ==
    \/ TickForeign /\ List
    \/ TickForeign /\ Export
    \/ TickForeign /\ Import

SpecForeign == InitForeign /\ [][NextForeign]_vars

\* Two clients work on the wallet file w1 at the same time, each running one
\* set_metadata or replace_keys_start. An operation is two steps: the fetch
\* (Did::fetch_record, which returns the entry and keeps no session), and the
\* rest of the function, which writes what it computed from the fetched entry
\* into the store as it is by then.
InitConcurrent ==
    /\ \E a \in CreatedStores :
          stores = [s \in StoreIds |-> IF s = "w1" THEN Some(a) ELSE None]
    /\ wallets = {"w1"}
    /\ result = Outcome("init", "w1", None, None, "Ok", None)
    /\ snapshot = [p \in BackupPaths |-> None]
    /\ imported = {}
    /\ handles = {}
    /\ fault = NoFaults
    /\ ops = 0
    /\ calls = NoCalls
    /\ ctx = WalletOpened

Finish(c, op, did, arg, res) ==
    /\ stores' = [stores EXCEPT !["w1"] = Some(res.store)]
    /\ result' = Outcome(op, "w1", did, arg, res.status, res.ret)
    /\ calls' = [calls EXCEPT ![c] =
                    [pc |-> "done", op |-> op, did |-> did, arg |-> arg,
                     entry |-> None, status |-> res.status, ret |-> res.ret]]

\* The fetch of set_metadata or replace_keys_start; NotFound ends the call.
CallFetch ==
    \E c \in Clients, op \in {"set_metadata", "replace_keys_start"} :
      \E did \in DidInputs("w1"),
         arg \in IF op = "set_metadata" THEN {Some(m) : m \in Metadatas}
                 ELSE {None} :
        /\ calls[c].pc = "idle"
        /\ LET fetched == Did_fetch_record(Store("w1"), did)
           IN IF fetched = None
              THEN Finish(c, op, Some(did), arg,
                          [status |-> "NotFound", ret |-> None, store |-> Store("w1")])
              ELSE /\ calls' = [calls EXCEPT ![c] =
                                  [pc |-> "fetched", op |-> op, did |-> Some(did),
                                   arg |-> arg, entry |-> fetched,
                                   status |-> "none", ret |-> None]]
                   /\ UNCHANGED <<stores, result>>
        /\ UNCHANGED <<wallets, snapshot, imported, handles, fault, ops, ctx>>

\* What the operation does after its fetch.
CallPersist ==
    \E c \in Clients, rnd \in FreshKeys :
        /\ calls[c].pc = "fetched"
        /\ LET call == calls[c]
               res == IF call.op = "set_metadata"
                      THEN Did_set_metadata_persist(Store("w1"), Unwrap(call.entry),
                                                    Unwrap(call.arg))
                      ELSE Did_replace_keys_start_persist(Store("w1"),
                                                          Unwrap(call.entry), None, rnd)
           IN Finish(c, call.op, call.did, call.arg, res)
        /\ UNCHANGED <<wallets, snapshot, imported, handles, fault, ops, ctx>>

NextConcurrent ==
    \/ CallFetch
    \/ CallPersist

SpecConcurrent == InitConcurrent /\ [][NextConcurrent]_vars

\* The command line client: a CommandContext in any of the states its
\* commands leave it in, over a wallet that holds what Did::create wrote.
Contexts ==
    {[NewContext EXCEPT !.wallet = w, !.pool = pt[1], !.taa = pt[2]] :
        w \in {None, Some("w1")},
        pt \in {<<None, None>>, <<Some("p1"), None>>, <<Some("p1"), Some("taa1")>>}}

InitCli ==
    /\ \E a \in CreatedStores \cup {EmptyStore} :
          stores = [s \in StoreIds |-> IF s = "w1" THEN Some(a) ELSE None]
    /\ wallets = {"w1"}
    /\ result = Outcome("init", "w1", None, None, "Ok", None)
    /\ snapshot = [p \in BackupPaths |-> None]
    /\ imported = {}
    /\ handles = {}
    /\ fault = NoFaults
    /\ ops = 0
    /\ calls = NoCalls
    /\ ctx \in Contexts

\* A command of the CLI that reads the stores and changes the context only.
Command(op, did, arg, res) ==
    /\ ~ctx.exit
    /\ ctx' = res.ctx
    /\ result' = Outcome(op, "w1", did, arg,
                         IF res.ok THEN "Ok" ELSE "Err", res.ret)
    /\ UNCHANGED <<stores, wallets, snapshot, imported, handles, fault, ops, calls>>

\* `did use <did>`
DidUse ==
    \E param \in {None} \cup {Some(d) : d \in DidInputs("w1")} :
        LET res == use_execute(ctx, stores, param)
        IN Command("did use", param, None, [ok |-> res.ok, ctx |-> res.ctx, ret |-> None])

\* `pool disconnect`
PoolDisconnect ==
    LET res == disconnect_execute(ctx)
    IN Command("pool disconnect", None, None,
               [ok |-> res.ok, ctx |-> res.ctx, ret |-> None])

\* The scripts of at most MaxLines lines.
Scripts == UNION {[1..n -> Lines] : n \in 0..MaxLines}

\* `indy-cli-rs <script>`: main runs the batch before it reads any command
\* from the terminal.
ExecuteBatch ==
    \E file \in {None} \cup {Some(f) : f \in Scripts} :
        LET res == execute_batch(ctx, file)
        IN /\ result.op = "init"
           /\ Command("batch", None, file,
                      [ok |-> TRUE, ctx |-> res.ctx, ret |-> Some(res.ran)])

NextCli ==
    \/ DidUse
    \/ PoolDisconnect
    \/ ExecuteBatch

SpecCli == InitCli /\ [][NextCli]_vars

\* ------------------------------------------------------------ properties
HasRecord(st, name) == IsSome(Did_fetch_record(st, name))
DidInfoOf(st, name) == Unwrap(Did_fetch_record(st, name)).value
Pending(st, name) == HasRecord(st, name) /\ IsSome(DidInfoOf(st, name).next_verkey)

\* The last command, and the store it ran against before and after it.
Ran(op) == result'.op = op
RanOk(op) == result'.op = op /\ result'.status = "Ok"
Before == Unwrap(stores[result'.w])
After == Unwrap(stores'[result'.w])

\* C1: when replace_keys_start(did) has returned verkey V and the next command
\* is a replace_keys_apply(did) that succeeds, get(did) gives a record whose
\* verkey is V and whose next_verkey is unset.
C1_RotationPromotesStartedKey ==
    [][(/\ result.op = "replace_keys_start" /\ result.status = "Ok"
        /\ RanOk("replace_keys_apply")
        /\ result'.w = result.w /\ result'.did = result.did)
       => LET got == Did_get(After, Unwrap(result.did))
          IN /\ got.status = "Ok"
             /\ Unwrap(got.ret).verkey = Unwrap(result.ret)
             /\ Unwrap(got.ret).next_verkey = None]_vars

C1_Witness ==
    /\ result.op = "replace_keys_apply" /\ result.status = "Ok"
    /\ DidInfoOf(Store(result.w), Unwrap(result.did)).next_verkey = None
    /\ DidInfoOf(Store(result.w), Unwrap(result.did)).verkey[1] = "rnd"

\* C2: replace_keys_apply(did) on a record whose next_verkey is unset fails
\* with InvalidEntityState and changes nothing in the store.
C2_ApplyWithoutStartFails ==
    [][(/\ Ran("replace_keys_apply")
        /\ HasRecord(Before, Unwrap(result'.did))
        /\ ~Pending(Before, Unwrap(result'.did)))
       => /\ result'.status = "InvalidEntityState"
          /\ stores' = stores]_vars

C2_Witness ==
    /\ result.op = "replace_keys_apply"
    /\ result.status = "InvalidEntityState"
    /\ HasRecord(Store(result.w), Unwrap(result.did))

\* C3: set_metadata(did, m) during a pending rotation succeeds, sets metadata
\* to m and keeps next_verkey, so that a replace_keys_apply run next succeeds
\* and promotes the pending key.
C3_SetMetadataKeepsPendingKey ==
    [][(/\ Ran("set_metadata")
        /\ Pending(Before, Unwrap(result'.did)))
       => LET did == Unwrap(result'.did)
              pending == DidInfoOf(Before, did).next_verkey
              applied == Did_replace_keys_apply(After, did)
          IN /\ result'.status = "Ok"
             /\ DidInfoOf(After, did).metadata = result'.arg
             /\ DidInfoOf(After, did).next_verkey = pending
             /\ applied.status = "Ok"
             /\ DidInfoOf(applied.store, did).verkey = Unwrap(pending)]_vars

C3_Witness ==
    /\ result.op = "set_metadata" /\ result.status = "Ok"
    /\ Pending(Store(result.w), Unwrap(result.did))
    /\ DidInfoOf(Store(result.w), Unwrap(result.did)).metadata = result.arg

\* Whether the command just run added a key to its store: in Did::create this
\* is the case exactly when Key::create succeeded.
KeyCreated == KeyNames(After) # KeyNames(Before)

\* C4 as stated, for a create without a method whose seed (if any) can be
\* decoded: with an explicit did that has no record it succeeds and stores a
\* record under that did; with a record under that did it fails with Duplicate.
C4_CreateExplicitDid ==
    [][(/\ Ran("create") /\ IsSome(result'.did)
        /\ result'.arg.method = None
        /\ IsSome(result'.arg.seed) => Seed_from_str(Unwrap(result'.arg.seed)))
       => LET did == Unwrap(result'.did)
          IN IF HasRecord(Before, did)
             THEN result'.status = "Duplicate"
             ELSE result'.status = "Ok" /\ HasRecord(After, did)]_vars

\* C4 as amended: create with an explicit did that has no record, without a
\* method and with a key creation that succeeds, succeeds and stores a record
\* under that did; create with an explicit did that has a record never
\* succeeds, leaves the DID records as they are, and fails with Duplicate
\* whenever its key creation succeeded.
C4_CreateExplicitDidAmended ==
    [][(Ran("create") /\ IsSome(result'.did))
       => LET did == Unwrap(result'.did)
          IN IF HasRecord(Before, did)
             THEN /\ result'.status # "Ok"
                  /\ After.records = Before.records
                  /\ KeyCreated => result'.status = "Duplicate"
             ELSE (result'.arg.method = None /\ KeyCreated)
                  => /\ result'.status = "Ok"
                     /\ result'.ret = Some(<<did, DidInfoOf(After, did).verkey>>)
                     /\ DidInfoOf(After, did).did = did]_vars

C4_Witness ==
    /\ result.op = "create" /\ result.status = "Duplicate"
    /\ IsSome(result.did)
    /\ HasRecord(Store(result.w), Unwrap(result.did))

\* The id create stores the new record under, for an explicit did.
StoredUnder(did, method) ==
    IF IsSome(method) THEN to_qualified(did, Unwrap(method))
    ELSE [ok |-> TRUE, did |-> did]

UniqueDids(st) ==
    \A e1, e2 \in DidEntries(st) : e1.value.did = e2.value.did => e1 = e2

\* C5: a store never holds two DID records with the same did, and a create
\* that gets as far as its lookup (its key was created) fails with Duplicate
\* whenever a record exists under the id the new record would be stored
\* under, the qualified id included.
C5_UniqueDidAndDuplicate ==
    [][/\ \A w \in WalletIds : IsSome(stores'[w]) => UniqueDids(Unwrap(stores'[w]))
       /\ (Ran("create") /\ IsSome(result'.did) /\ KeyCreated)
          => LET target == StoredUnder(Unwrap(result'.did), result'.arg.method)
             IN (target.ok /\ HasRecord(Before, target.did))
                => result'.status = "Duplicate"]_vars

\* C6 as stated: qualify(did, method) on an existing unqualified did returns
\* did:<method>:<did>; then get under that id succeeds and get under the old
\* id fails with NotFound.
C6_Qualify ==
    [][(/\ Ran("qualify")
        /\ HasRecord(Before, Unwrap(result'.did))
        /\ ~is_fully_qualified(Unwrap(result'.did)))
       => LET did == Unwrap(result'.did)
              qualified == <<"did", Unwrap(result'.arg)>> \o did
          IN /\ result'.status = "Ok"
             /\ result'.ret = Some(qualified)
             /\ Did_get(After, qualified).status = "Ok"
             /\ Did_get(After, did).status = "NotFound"]_vars

\* C6 as amended: the same, provided no record is stored under the qualified
\* id when qualify is called.
C6_QualifyAmended ==
    [][(/\ Ran("qualify")
        /\ HasRecord(Before, Unwrap(result'.did))
        /\ ~is_fully_qualified(Unwrap(result'.did))
        /\ ~HasRecord(Before, <<"did", Unwrap(result'.arg)>> \o Unwrap(result'.did)))
       => LET did == Unwrap(result'.did)
              qualified == <<"did", Unwrap(result'.arg)>> \o did
          IN /\ result'.status = "Ok"
             /\ result'.ret = Some(qualified)
             /\ Did_get(After, qualified).status = "Ok"
             /\ Unwrap(Did_get(After, qualified).ret).did = qualified
             /\ Did_get(After, did).status = "NotFound"]_vars

C6_Witness ==
    /\ result.op = "qualify" /\ result.status = "Ok"
    /\ ~is_fully_qualified(Unwrap(result.did))
    /\ result.ret = Some(<<"did", Unwrap(result.arg)>> \o Unwrap(result.did))
    /\ HasRecord(Store(result.w), Unwrap(result.ret))
    /\ ~HasRecord(Store(result.w), Unwrap(result.did))

\* C7: when a store has been exported and the backup imported into a fresh
\* store, both with success, the new store holds exactly the DID records of
\* the exported store and signs every message under every did as that store
\* did.
C7_ExportImportRoundTrip ==
    (/\ result.op = "import" /\ result.status = "Ok"
     /\ IsSome(snapshot[Unwrap(result.arg)]))
    => LET source == Unwrap(snapshot[Unwrap(result.arg)])
           target == Store(result.w)
       IN /\ DidEntries(target) = DidEntries(source)
          /\ \A did \in DidNames(source), bytes \in Messages :
                /\ Did_sign(target, did, bytes).status
                      = Did_sign(source, did, bytes).status
                /\ Did_sign(target, did, bytes).ret = Did_sign(source, did, bytes).ret

\* Stores no failed copy has written to: the wallet the run starts with, the
\* backups of successful exports and the wallets successfully imported from
\* such backups.
CopiedWithSuccess ==
    {"w1"} \cup {p \in BackupPaths : IsSome(snapshot[p])}
           \cup {i[1] : i \in {j \in imported : IsSome(snapshot[j[2]])}}

VerkeysResolve(st) == \A e \in DidEntries(st) : e.value.verkey \in KeyNames(st)

\* C8: in every such store the verkey of every DID record names a key of the
\* same store.
C8_VerkeyResolvesToStoredKey ==
    \A s \in CopiedWithSuccess : VerkeysResolve(Unwrap(stores[s]))

NextKeyDiffers(st) ==
    \A e \in DidEntries(st) : e.value.next_verkey # Some(e.value.verkey)

IsDidCommand == result'.op \notin {"init", "export", "import"}

\* C9: next_verkey becomes set only by a successful replace_keys_start on the
\* did (a successful qualify carries a pending key over to the qualified id),
\* stays set until a successful replace_keys_apply on the did, and is never
\* equal to the verkey of the record.
C9_NextVerkeyOnlyWhilePending ==
    [][/\ \A s \in CopiedWithSuccess :
             IsSome(stores'[s]) => NextKeyDiffers(Unwrap(stores'[s]))
       /\ IsDidCommand =>
            /\ \A name \in DidNames(After) :
                  (Pending(After, name) /\ ~Pending(Before, name))
                  => \/ RanOk("replace_keys_start") /\ result'.did = Some(name)
                     \/ /\ RanOk("qualify") /\ result'.ret = Some(name)
                        /\ Pending(Before, Unwrap(result'.did))
            /\ \A name \in DidNames(Before) :
                  (Pending(Before, name) /\ ~Pending(After, name))
                  => \/ RanOk("replace_keys_apply") /\ result'.did = Some(name)
                     \/ Ran("qualify") /\ result'.did = Some(name)]_vars

\* C10: create stores its record with next_verkey unset; the verkey of a
\* record changes only in a successful replace_keys_apply on its did, which
\* sets it to the next_verkey the record had; qualify carries the verkey over
\* unchanged.
C10_VerkeyChangesOnlyByApply ==
    [][IsDidCommand =>
        /\ \A name \in DidNames(Before) \cap DidNames(After) :
              DidInfoOf(After, name).verkey # DidInfoOf(Before, name).verkey
              => RanOk("replace_keys_apply") /\ result'.did = Some(name)
        /\ RanOk("replace_keys_apply")
           => Some(DidInfoOf(After, Unwrap(result'.did)).verkey)
                 = DidInfoOf(Before, Unwrap(result'.did)).next_verkey
        /\ RanOk("create")
           => /\ ~HasRecord(Before, Unwrap(result'.ret)[1])
              /\ DidInfoOf(After, Unwrap(result'.ret)[1]).next_verkey = None
        /\ RanOk("qualify")
           => DidInfoOf(After, Unwrap(result'.ret)).verkey
                 = DidInfoOf(Before, Unwrap(result'.did)).verkey]_vars

C10_Witness ==
    /\ result.op = "replace_keys_apply" /\ result.status = "Ok"
    /\ DidInfoOf(Store(result.w), Unwrap(result.did)).verkey[1] = "seed"
    /\ DidInfoOf(Store(result.w), Unwrap(result.did)).metadata = Some("m1")

\* The signature the key with verkey `verkey` makes over `bytes`.
SignatureBy(verkey, bytes) == Some(sign_message(secret_of(verkey), bytes))

\* C11: sign(did, bytes) on an existing record succeeds with the signature of
\* the key whose verkey is the record's current verkey: while a rotation is
\* pending that is the pre-rotation key and not the pending one, and right
\* after a successful replace_keys_apply it is the key that was pending.
C11_SignUsesCurrentVerkey ==
    [][(Ran("sign") /\ HasRecord(Before, Unwrap(result'.did)))
       => LET did == Unwrap(result'.did)
              info == DidInfoOf(Before, did)
              bytes == Unwrap(result'.arg)
          IN /\ result'.status = "Ok"
             /\ result'.ret = SignatureBy(info.verkey, bytes)
             /\ stores' = stores
             /\ IsSome(info.next_verkey)
                => result'.ret # SignatureBy(Unwrap(info.next_verkey), bytes)
             /\ (/\ result.op = "replace_keys_start" /\ result.status = "Ok"
                 /\ result.did = result'.did)
                => /\ info.next_verkey = result.ret
                   /\ result'.ret # SignatureBy(Unwrap(result.ret), bytes)]_vars

C11_Witness ==
    /\ result.op = "sign" /\ result.status = "Ok"
    /\ Pending(Store(result.w), Unwrap(result.did))
    /\ result.ret = SignatureBy(DidInfoOf(Store(result.w), Unwrap(result.did)).verkey,
                                Unwrap(result.arg))

\* Keys of a store that no DID record names as verkey or next_verkey.
UnusedKeys(st) ==
    {k \in st.keys : \A e \in DidEntries(st) :
        /\ e.value.verkey # k.name
        /\ e.value.next_verkey # Some(k.name)}

\* C12: no command removes a store or a key entry of a store: every key a
\* store holds before a step it holds after it, keys superseded by a
\* rotation included.
C12_KeysNeverRemoved ==
    [][\A s \in StoreIds :
          IsSome(stores[s])
          => /\ IsSome(stores'[s])
             /\ Unwrap(stores[s]).keys \subseteq Unwrap(stores'[s]).keys]_vars

C12_Witness ==
    /\ result.op = "export" /\ result.status = "Ok"
    /\ \E k \in UnusedKeys(Store(result.w)) :
          \E e \in DidEntries(Store(result.w)) : e.value.verkey[1] = "rnd"

\* C13: a successful create with a seed and no explicit did returns the pair
\* (did, verkey) that the same create returns on a fresh store, whatever the
\* metadata and whatever key the random generator would have produced.
C13_CreateWithSeedDeterministic ==
    [][(RanOk("create") /\ result'.did = None /\ IsSome(result'.arg.seed))
       => \A metadata \in {None} \cup {Some(m) : m \in Metadatas},
             rnd \in RandomKeys :
             LET fresh == Did_create(EmptyStore, None, result'.arg.seed, metadata,
                                     result'.arg.method, rnd)
             IN fresh.status = "Ok" /\ fresh.ret = result'.ret]_vars

C13_Witness ==
    /\ result.op = "create" /\ result.status = "Ok"
    /\ result.did = None /\ result.arg.seed = Some(1)
    /\ result.ret = Some(<<short_did(from_secret_bytes(1)), from_secret_bytes(1)>>)

\* C14: abbreviating an abbreviated verkey changes nothing: for every did a
\* caller can name in a store and every key of that store, qualified and
\* unqualified dids alike, abbreviate_verkey(did, abbreviate_verkey(did, v))
\* is abbreviate_verkey(did, v).
C14_AbbreviateIdempotent ==
    \A w \in Opened : \A did \in DidInputs(w), verkey \in KeyNames(Store(w)) :
        LET once == Did_abbreviate_verkey(did, verkey)
        IN once.status = "Ok"
           => Did_abbreviate_verkey(did, Unwrap(once.ret)) = once

\* A qualified did whose verkey is abbreviated next to an unqualified one
\* whose verkey is not.
C14_Witness ==
    \E e1, e2 \in DidEntries(Store("w1")) :
        /\ is_fully_qualified(e1.value.did)
        /\ Unwrap(Did_abbreviate_verkey(e1.value.did, e1.value.verkey).ret)[1] = "~"
        /\ ~is_fully_qualified(e2.value.did)
        /\ Did_abbreviate_verkey(e2.value.did, e2.value.verkey).ret
              = Some(e2.value.verkey)

\* C15: qualify(did, method) fails with NotFound when no record is stored
\* under did, and with InvalidInput when the record exists but did is already
\* qualified with another method; in both cases nothing in any store changes
\* and the record under did is still there.
C15_QualifyFailuresKeepRecord ==
    [][Ran("qualify")
       => LET did == Unwrap(result'.did)
              method == Unwrap(result'.arg)
          IN /\ ~HasRecord(Before, did)
                => result'.status = "NotFound" /\ stores' = stores
             /\ (/\ HasRecord(Before, did)
                 /\ is_fully_qualified(did) /\ did[2] # method)
                => /\ result'.status = "InvalidInput"
                   /\ stores' = stores
                   /\ HasRecord(After, did)]_vars

C15_Witness ==
    /\ result.op = "qualify" /\ result.status = "InvalidInput"
    /\ is_fully_qualified(Unwrap(result.did))
    /\ HasRecord(Store(result.w), Unwrap(result.did))

\* C16: after a successful qualify the record under the returned id is the
\* record that was under the old id with only name and did replaced: verkey,
\* verkey_type, method, metadata, next_verkey and tags are the same, every
\* other record and every key is untouched, and a rotation that was pending
\* can be applied under the new id.
C16_QualifyMovesRecord ==
    [][RanOk("qualify")
       => LET did == Unwrap(result'.did)
              qualified == Unwrap(result'.ret)
              old == Unwrap(Did_fetch_record(Before, did))
              new == Unwrap(Did_fetch_record(After, qualified))
              applied == Did_replace_keys_apply(After, qualified)
          IN /\ HasRecord(After, qualified)
             /\ new.value = [old.value EXCEPT !.did = qualified]
             /\ new.tags = old.tags
             /\ After.records \ {new} = Before.records \ {old}
             /\ After.keys = Before.keys
             /\ IsSome(old.value.next_verkey)
                => /\ applied.status = "Ok"
                   /\ DidInfoOf(applied.store, qualified).verkey
                         = Unwrap(old.value.next_verkey)]_vars

C16_Witness ==
    /\ result.op = "qualify" /\ result.status = "Ok"
    /\ ~is_fully_qualified(Unwrap(result.did))
    /\ Pending(Store(result.w), Unwrap(result.ret))
    /\ DidInfoOf(Store(result.w), Unwrap(result.ret)).method = None
    /\ DidInfoOf(Store(result.w), Unwrap(result.ret)).metadata = Some("m1")

\* C17: get(did) succeeds exactly when an entry of the DID category has the
\* name did, and then returns the body of that entry; otherwise it fails with
\* NotFound, also when a record is stored under another form of the same
\* identifier. get changes nothing.
C17_GetExactId ==
    [][Ran("get")
       => LET did == Unwrap(result'.did)
              stored == {e \in DidEntries(Before) : e.name = did}
          IN /\ stores' = stores
             /\ IF stored = {}
                THEN result'.status = "NotFound" /\ result'.ret = None
                ELSE /\ result'.status = "Ok"
                     /\ \E e \in stored : result'.ret = Some(e.value)]_vars

C17_Witness ==
    /\ result.op = "get" /\ result.status = "NotFound"
    /\ ~is_fully_qualified(Unwrap(result.did))
    /\ \E method \in Methods :
          HasRecord(Store(result.w), <<"did", method>> \o Unwrap(result.did))

\* C18: list changes nothing; when every entry of the DID category holds a
\* DidInfo it succeeds with exactly one element per entry (none for a store
\* without DID records), and when some entry does not it fails and returns no
\* list at all.
C18_ListAllOrError ==
    [][Ran("list")
       => /\ stores' = stores
          /\ IF \A e \in DidEntries(Before) : "did" \in DOMAIN e.value
             THEN /\ result'.status = "Ok"
                  /\ BagCardinality(Unwrap(result'.ret))
                        = Cardinality(DidEntries(Before))
                  /\ \A e \in DidEntries(Before) : BagIn(e.value, Unwrap(result'.ret))
             ELSE /\ result'.status # "Ok"
                  /\ result'.ret = None]_vars

C18_Witness ==
    /\ result.op = "list" /\ result.status # "Ok"
    /\ \E e1, e2 \in DidEntries(Store(result.w)) :
          /\ IsSome(from_slice(e1.value))
          /\ from_slice(e2.value) = None

\* C19: a create with method M for the unqualified identifier R (the explicit
\* did, or the one derived from the new key) succeeds when its key could be
\* created and no record is stored under R or did:M:R. When it succeeds it
\* returns did:M:R with the verkey of the new key (the key of the seed, if a
\* seed was given); the record is stored under did:M:R with that did and
\* verkey and method M in its body and a method tag M, and get(did:M:R)
\* returns it.
C19_CreateWithMethod ==
    [][(/\ Ran("create") /\ IsSome(result'.arg.method) /\ KeyCreated
        /\ IsSome(result'.did) => ~is_fully_qualified(Unwrap(result'.did)))
       => LET method == Unwrap(result'.arg.method)
              verkey == CHOOSE k \in KeyNames(After) \ KeyNames(Before) : TRUE
              raw == IF IsSome(result'.did) THEN Unwrap(result'.did)
                     ELSE short_did(verkey)
              qualified == <<"did", method>> \o raw
              entry == Unwrap(Did_fetch_record(After, qualified))
              got == Did_get(After, qualified)
          IN /\ (~HasRecord(Before, raw) /\ ~HasRecord(Before, qualified))
                => result'.status = "Ok"
             /\ result'.status = "Ok"
                => /\ result'.ret = Some(<<qualified, verkey>>)
                   /\ IsSome(result'.arg.seed)
                      => verkey = from_secret_bytes(Unwrap(result'.arg.seed))
                   /\ ~HasRecord(Before, qualified)
                   /\ HasRecord(After, qualified)
                   /\ entry.name = qualified
                   /\ entry.value.did = qualified
                   /\ entry.value.verkey = verkey
                   /\ entry.value.method = Some(method)
                   /\ entry.tags.method = Some(method)
                   /\ entry.tags.verkey = verkey
                   /\ got.status = "Ok"
                   /\ got.ret = Some(entry.value)]_vars

C19_Witness ==
    /\ result.op = "create" /\ result.status = "Ok"
    /\ result.arg.seed = Some(1) /\ result.arg.method = Some("indy")
    /\ result.ret = Some(<<<<"did", "indy">> \o short_did(from_secret_bytes(1)),
                           from_secret_bytes(1)>>)
    /\ Did_get(Store(result.w), Unwrap(result.ret)[1]).status = "Ok"

\* C20: import fails with NotFound when no backup exists at the path, and
\* with Duplicate when a backup exists and a wallet is registered under the
\* new id; in both cases the registered wallets and every store, the store of
\* the existing wallet included, are as they were.
C20_ImportFailuresChangeNothing ==
    [][Ran("import")
       => LET path == Unwrap(result'.arg)
              id == result'.w
          IN /\ stores[path] = None
                => /\ result'.status = "NotFound"
                   /\ stores' = stores /\ wallets' = wallets
             /\ (stores[path] # None /\ id \in wallets)
                => /\ result'.status = "Duplicate"
                   /\ stores' = stores /\ wallets' = wallets]_vars

C20_Witness ==
    /\ result.op = "import" /\ result.status = "Duplicate"
    /\ result.w \in wallets
    /\ DidEntries(Store(result.w)) # {}
    /\ IsSome(stores[Unwrap(result.arg)])

\* The store a copy writes into: the backup of an export, the new wallet of
\* an import.
CopyTarget == IF result'.op = "export" THEN Unwrap(result'.arg) ELSE result'.w

\* C21: when an export or import fails after its copy has begun, the target
\* store holds none of the records and keys of the source: nothing of an
\* aborted copy has been committed.
C21_AbortedCopyCommitsNothing ==
    [][((Ran("export") \/ Ran("import")) /\ result'.status = "StoreError")
       => Unwrap(stores'[CopyTarget]) = EmptyStore]_vars

\* C22: whenever an export or import has returned, with success or with an
\* error, every store it opened has been closed.
C22_CopyReleasesStores ==
    (result.op \in {"export", "import"}) => handles = {}

\* The store a copy reads: the wallet of an export, the backup of an import.
CopySource == IF result'.op = "export" THEN result'.w ELSE Unwrap(result'.arg)

\* An export, or an import that got as far as its copy.
CopyRan ==
    \/ Ran("export")
    \/ Ran("import") /\ result'.status \notin {"NotFound", "Duplicate"}

C24_CopiesDidCategoryAndKeysOnly ==
    [][CopyRan
       => LET source == Unwrap(stores[CopySource])
              target == Unwrap(stores'[CopyTarget])
          IN /\ \A e \in target.records : e.category = CATEGORY_DID
             /\ target.records \subseteq DidEntries(source)
             /\ target.keys \subseteq source.keys
             /\ fault' = NoFaults
                => /\ target.records = DidEntries(source)
                   /\ target.keys = source.keys
             /\ stores'[CopySource] = stores[CopySource]]_vars

C24_Witness ==
    /\ result.op = "export" /\ result.status = "Ok"
    /\ \E e \in Store(result.w).records : e.category # CATEGORY_DID
    /\ DidEntries(Unwrap(stores[Unwrap(result.arg)])) = DidEntries(Store(result.w))
    /\ DidEntries(Store(result.w)) # {}

\* C25: when a set_metadata and a replace_keys_start on the same did, run by
\* two clients, have both returned Ok, the record holds the new metadata and
\* the key replace_keys_start returned as next_verkey.
C25_NoLostUpdate ==
    \A c \in Clients, d \in Clients :
        (/\ calls[c].op = "set_metadata" /\ calls[c].status = "Ok"
         /\ calls[d].op = "replace_keys_start" /\ calls[d].status = "Ok"
         /\ calls[c].did = calls[d].did)
        => LET did_info == DidInfoOf(Store("w1"), Unwrap(calls[c].did))
           IN /\ did_info.metadata = calls[c].arg
              /\ did_info.next_verkey = calls[d].ret

\* C26: create with a seed that cannot be decoded fails with InvalidInput and
\* leaves every store as it was: no key and no DID record is added or
\* changed. replace_keys_start with such a seed does the same when the did has
\* a record (its fetch comes first: without a record it fails with NotFound,
\* and writes nothing either).
Undecodable(seed) == IsSome(seed) /\ ~Seed_from_str(Unwrap(seed))

C26_UndecodableSeedWritesNothing ==
    [][/\ (Ran("create") /\ Undecodable(result'.arg.seed))
          => (result'.status = "InvalidInput" /\ stores' = stores)
       /\ (Ran("replace_keys_start") /\ Undecodable(result'.arg))
          => /\ stores' = stores
             /\ result'.status = IF HasRecord(Before, Unwrap(result'.did))
                                 THEN "InvalidInput" ELSE "NotFound"]_vars

C26_Witness ==
    /\ result.op = "replace_keys_start" /\ Undecodable(result.arg)
    /\ result.status = "InvalidInput"
    /\ HasRecord(Store(result.w), Unwrap(result.did))
    /\ Cardinality(Store(result.w).keys) = 1

\* C27: replace_keys_start on a did without a record fails with NotFound and
\* leaves the store as it was (no key is created). When it succeeds, the store
\* has exactly one key more, the returned one; the record's next_verkey is that
\* key; its other fields and its tags are as before, and so is every other
\* record.
C27_StartNotFoundOrOneNewKey ==
    [][Ran("replace_keys_start")
       => LET did == Unwrap(result'.did)
          IN /\ ~HasRecord(Before, did)
                => (result'.status = "NotFound" /\ stores' = stores)
             /\ result'.status = "Ok"
                => /\ HasRecord(Before, did)
                   /\ \E k \in After.keys :
                         /\ k \notin Before.keys
                         /\ k.name \notin KeyNames(Before)
                         /\ After.keys = Before.keys \cup {k}
                         /\ result'.ret = Some(k.name)
                         /\ DidInfoOf(After, did)
                               = [DidInfoOf(Before, did) EXCEPT
                                     !.next_verkey = Some(k.name)]
                   /\ Unwrap(Did_fetch_record(After, did)).tags
                         = Unwrap(Did_fetch_record(Before, did)).tags
                   /\ {e \in After.records : e.name # did}
                         = {e \in Before.records : e.name # did}]_vars

C27_Witness ==
    /\ result.op = "replace_keys_start" /\ result.status = "Ok"
    /\ result.arg = None
    /\ IsSome(DidInfoOf(Store(result.w), Unwrap(result.did)).metadata)
    /\ DidInfoOf(Store(result.w), Unwrap(result.did)).next_verkey = result.ret
    /\ DidInfoOf(Store(result.w), Unwrap(result.did)).verkey # Unwrap(result.ret)
    /\ Cardinality(Store(result.w).keys) = 2

\* C28: replace_keys_start on a did whose rotation is pending works as on any
\* other record: with a key that can be created it succeeds, next_verkey
\* becomes the new key, and the key that was pending stays in the store while
\* no record names it. A replace_keys_apply that runs next on the did makes
\* the second key the verkey.
PendingKey(st, did) == Unwrap(DidInfoOf(st, did).next_verkey)

NamedKeys(st) ==
    {e.value.verkey : e \in DidEntries(st)}
        \cup {Unwrap(e.value.next_verkey) :
                e \in {x \in DidEntries(st) : IsSome(x.value.next_verkey)}}

C28_SecondStartReplacesPendingKey ==
    [][(Ran("replace_keys_start") /\ Pending(Before, Unwrap(result'.did)))
       => LET did == Unwrap(result'.did)
              first == PendingKey(Before, did)
              seeded == IsSome(result'.arg) /\ ~Undecodable(result'.arg)
              apply == Did_replace_keys_apply(After, did)
          IN /\ result'.status = "InvalidInput" <=> Undecodable(result'.arg)
             /\ result'.status = "StoreError"
                <=> (seeded /\ verkey_of(from_secret_bytes(Unwrap(result'.arg)))
                                  \in KeyNames(Before))
             /\ result'.status \in {"Ok", "InvalidInput", "StoreError"}
             /\ result'.status = "Ok"
                => /\ PendingKey(After, did) = Unwrap(result'.ret)
                   /\ PendingKey(After, did) # first
                   /\ first \in KeyNames(After)
                   /\ first \notin NamedKeys(After)
                   /\ apply.status = "Ok"
                   /\ DidInfoOf(apply.store, did).verkey = Unwrap(result'.ret)
                   /\ DidInfoOf(apply.store, did).next_verkey = None]_vars

C28_Witness ==
    /\ result.op = "replace_keys_start" /\ result.status = "Ok"
    /\ Cardinality(DidEntries(Store(result.w))) = 1
    /\ Cardinality(Store(result.w).keys) = 3
    /\ DidInfoOf(Store(result.w), Unwrap(result.did)).verkey = <<"seed", 1>>
    /\ PendingKey(Store(result.w), Unwrap(result.did)) = <<"rnd", 2>>
    /\ <<"rnd", 1>> \in KeyNames(Store(result.w)) \ NamedKeys(Store(result.w))

\* C29: set_metadata on a did without a record fails with NotFound and leaves
\* the store as it was. On a did with a record it succeeds and changes the
\* metadata field only: did, verkey, verkey_type, method, next_verkey and the
\* tags of the record, every other record and the keys are as before.
C29_SetMetadataChangesMetadataOnly ==
    [][Ran("set_metadata")
       => LET did == Unwrap(result'.did)
          IN IF ~HasRecord(Before, did)
             THEN result'.status = "NotFound" /\ stores' = stores
             ELSE LET old == Unwrap(Did_fetch_record(Before, did))
                      new == Unwrap(Did_fetch_record(After, did))
                  IN /\ result'.status = "Ok"
                     /\ HasRecord(After, did)
                     /\ new.value = [old.value EXCEPT !.metadata = result'.arg]
                     /\ new.tags = old.tags
                     /\ After.records \ {new} = Before.records \ {old}
                     /\ After.keys = Before.keys]_vars

C29_Witness ==
    /\ result.op = "set_metadata" /\ result.status = "Ok"
    /\ LET entry == Unwrap(Did_fetch_record(Store(result.w), Unwrap(result.did)))
       IN /\ entry.value.metadata = result.arg
          /\ entry.value.next_verkey = None
          /\ entry.tags.verkey # entry.value.verkey
          /\ is_fully_qualified(entry.value.did)

\* The secrets held by the keys of every store.
AllSecrets ==
    UNION {{k.secret : k \in Unwrap(stores[s]).keys}
             : s \in {x \in StoreIds : IsSome(stores[x])}}

\* The dids, verkeys and signatures inside a DidInfo and inside the value the
\* last command returned. (The other fields of a DidInfo are KEY_TYPE and the
\* method and metadata the caller passed in.)
InfoParts(info) ==
    {info.did, info.verkey}
        \cup (IF IsSome(info.next_verkey) THEN {Unwrap(info.next_verkey)} ELSE {})

Returned ==
    IF result.ret = None THEN {}
    ELSE LET ret == Unwrap(result.ret)
         IN CASE result.op = "create" -> {ret[1], ret[2]}
              [] result.op = "get" -> InfoParts(ret)
              [] result.op = "list" -> UNION {InfoParts(i) : i \in BagToSet(ret)}
              [] OTHER -> {ret}

ReturnsNoSecret == Returned \cap AllSecrets = {}

\* What Key::load hands to its caller for the keys of the opened wallets.
KeyManagerReturnsNoSecret ==
    \A w \in Opened : \A id \in KeyNames(Store(w)) :
        Unwrap(Key_load(Store(w), id)).secret \notin AllSecrets

\* A create that generated its key returns the same did and verkey whichever
\* key was generated.
HandlesIndependentOfKey ==
    (RanOk("create") /\ result'.arg.seed = None)
    => \A rnd \in RandomKeys :
          LET other == Did_create(Before, result'.did, None, None,
                                  result'.arg.method, rnd)
          IN other.status = "Ok" => other.ret = result'.ret

C31_UseSetsActiveDidOnlyIfKnown ==
    [][Ran("did use")
       => LET known == /\ IsSome(result'.did)
                       /\ IsSome(ctx.wallet)
                       /\ HasRecord(Store(Unwrap(ctx.wallet)), Unwrap(result'.did))
          IN IF known
             THEN /\ result'.status = "Ok"
                  /\ ctx' = [ctx EXCEPT !.active_did = result'.did]
             ELSE /\ result'.status = "Err"
                  /\ ctx' = ctx]_vars

C31_Witness ==
    /\ result.op = "did use" /\ result.status = "Err"
    /\ IsSome(result.did)
    /\ IsSome(ctx.wallet)
    /\ IsSome(ctx.active_did) /\ ctx.active_did # result.did
    /\ HasRecord(Store("w1"), Unwrap(ctx.active_did))

\* C32: `pool disconnect` fails and leaves the context as it was when no pool
\* is connected. With a pool connected it succeeds and clears the connected
\* pool and the transaction author agreement info, and nothing else; a
\* disconnect run on the resulting context fails.
C32_DisconnectClearsPoolAndTaa ==
    [][Ran("pool disconnect")
       => IF ctx.pool = None
          THEN result'.status = "Err" /\ ctx' = ctx
          ELSE /\ result'.status = "Ok"
               /\ ctx' = [ctx EXCEPT !.pool = None, !.taa = None]
               /\ ~disconnect_execute(ctx').ok]_vars

C32_Witness ==
    /\ result.op = "pool disconnect" /\ result.status = "Ok"
    /\ ctx.pool = None /\ ctx.taa = None
    /\ IsSome(ctx.active_did)

\* C33: a batch executes the lines of its script in file order. Lines that
\* are empty or start with '#' are never executed. It stops after the first
\* command that fails and is not prefixed with '-': no later line is executed.
\* A failing command prefixed with '-' does not stop it. (The batch also stops
\* after the exit command and at a line the reader cannot decode.)
Skipped(line) == starts_with(line, "#") \/ line = <<>>

BatchStopsAt(lines, ran, k) ==
    \/ lines[k] = <<"?">>
    \/ \E n \in DOMAIN ran :
          /\ ran[n].line = k
          /\ \/ ~ran[n].ok /\ ~starts_with(lines[k], "-")
             \/ ran[n].ok /\ lines[k] \in {<<"exit">>, <<"-", "exit">>}

C33_BatchStopsAtFirstFailure ==
    [][(Ran("batch") /\ IsSome(result'.arg))
       => LET lines == Unwrap(result'.arg)
              ran == Unwrap(result'.ret)
              executed == {ran[n].line : n \in DOMAIN ran}
          IN /\ \A n \in DOMAIN ran : \A m \in DOMAIN ran :
                   n < m => ran[n].line < ran[m].line
             /\ \A k \in DOMAIN lines :
                   k \in executed
                   <=> /\ ~Skipped(lines[k]) /\ lines[k] # <<"?">>
                       /\ \A j \in 1..(k - 1) : ~BatchStopsAt(lines, ran, j)
             /\ \A n \in DOMAIN ran :
                   (~ran[n].ok /\ ~starts_with(lines[ran[n].line], "-"))
                   => n = Len(ran)]_vars

C33_Witness ==
    /\ result.op = "batch" /\ IsSome(result.arg)
    /\ Unwrap(result.arg) = <<<<"-", "bad">>, <<"bad">>, <<"about">>>>
    /\ Unwrap(result.ret) = <<[line |-> 1, ok |-> FALSE], [line |-> 2, ok |-> FALSE]>>

\* C39: when execute_batch has returned, the context is not in batch mode,
\* whether or not the script file could be opened.
C39_BatchModeResetOnReturn ==
    [][Ran("batch") => ~ctx'.batch_mode]_vars

\* C34: when qualify returns an error, the record it was called on is still
\* stored under its old id, and no qualify call leaves the store with fewer
\* DID records than it had.
C34_QualifyErrorKeepsRecord ==
    [][Ran("qualify")
       => /\ Cardinality(DidEntries(After)) >= Cardinality(DidEntries(Before))
          /\ result'.status # "Ok"
             => Did_fetch_record(After, Unwrap(result'.did))
                   = Did_fetch_record(Before, Unwrap(result'.did))]_vars

\* C35: a create that fails with Duplicate leaves the store exactly as it was:
\* no DID record is added or changed and no key is added.
C35_DuplicateCreateWritesNothing ==
    [][(Ran("create") /\ result'.status = "Duplicate") => stores' = stores]_vars

\* C36 as stated: in every store the verkey tag of each DID record equals the
\* verkey field of its body.
C36_VerkeyTagEqualsBody ==
    \A s \in {x \in StoreIds : IsSome(stores[x])} :
        \A e \in DidEntries(Unwrap(stores[s])) : e.tags.verkey = e.value.verkey

\* C36, amended: create writes a record whose verkey tag equals the verkey of
\* its body. No command changes the tags of a record afterwards: every DID
\* record a step leaves in a store either was in some store before the step
\* with the same tags and the same body verkey (kept, renamed by qualify, or
\* copied by export or import), or is the record a successful create wrote, or
\* is the record a successful replace_keys_apply rewrote, with the tags it had
\* and the pending key as its body verkey. After replace_keys_apply the tag
\* therefore names the verkey the record was created with, not the body's.
EntriesBefore ==
    UNION {DidEntries(Unwrap(stores[s])) : s \in {x \in StoreIds : IsSome(stores[x])}}

C36_TagsKeepCreationVerkey ==
    [][\A s \in {x \in StoreIds : IsSome(stores'[x])} :
          \A e \in DidEntries(Unwrap(stores'[s])) :
              \/ \E o \in EntriesBefore :
                    o.tags = e.tags /\ o.value.verkey = e.value.verkey
              \/ /\ RanOk("create")
                 /\ e.tags.verkey = e.value.verkey
                 /\ e.value.did = result'.ret[1][1]
              \/ /\ RanOk("replace_keys_apply")
                 /\ e.name = Unwrap(result'.did)
                 /\ \E o \in DidEntries(Before) :
                       /\ o.name = e.name /\ o.tags = e.tags
                       /\ o.value.next_verkey = Some(e.value.verkey)
                       /\ e.tags.verkey # e.value.verkey]_vars

C36_Witness ==
    /\ result.op = "export" /\ result.status = "Ok"
    /\ \E e \in DidEntries(Unwrap(stores[Unwrap(result.arg)])) :
          /\ e.tags.verkey # e.value.verkey
          /\ e \in DidEntries(Store(result.w))

\* C37: in every store the name a DID record is stored under equals the did
\* field of its body; hence a successful replace_keys_start,
\* replace_keys_apply or set_metadata, which fetches by the id it is given and
\* persists under the did of the body, rewrites the record it fetched: the
\* names of the DID records are as before and every other record is
\* untouched.
NameIsDid ==
    \A s \in {x \in StoreIds : IsSome(stores[x])} :
        \A e \in DidEntries(Unwrap(stores[s])) : e.name = e.value.did

C37_NameEqualsBodyDid ==
    [][/\ NameIsDid'
       /\ (\/ RanOk("replace_keys_start") \/ RanOk("replace_keys_apply")
           \/ RanOk("set_metadata"))
          => /\ DidNames(After) = DidNames(Before)
             /\ {e \in After.records : e.name # Unwrap(result'.did)}
                   = {e \in Before.records : e.name # Unwrap(result'.did)}
             /\ DidInfoOf(After, Unwrap(result'.did)).did = Unwrap(result'.did)]_vars

C37_Witness ==
    /\ result.op = "replace_keys_apply" /\ result.status = "Ok"
    /\ is_fully_qualified(Unwrap(result.did))
    /\ DidInfoOf(Store(result.w), Unwrap(result.did)).method = None
    /\ DidInfoOf(Store(result.w), Unwrap(result.did)).did = Unwrap(result.did)
    /\ Cardinality(DidEntries(Store(result.w))) = 2

\* C38: an import that fails after its precondition checks (not with NotFound
\* for the backup and not with Duplicate for the wallet id) leaves no wallet
\* registered under the new id, so that the same import run again does not
\* fail with Duplicate.
C38_FailedImportRegistersNothing ==
    [][(Ran("import") /\ result'.status \notin {"Ok", "NotFound", "Duplicate"})
       => /\ result'.w \notin wallets'
          /\ Wallet_import(stores', wallets', result'.w, Unwrap(result'.arg),
                           NoFaults).status # "Duplicate"]_vars

====
